---- MODULE Spec2Model ----
\* A model of src/main.rs: the startup of the HTTP listener process (port
\* resolution from the environment, the log line, the bind) and the serving of
\* requests by the two-route router.
EXTENDS Integers, Sequences, FiniteSets, Bags, TLC

VARIABLES
    env,        \* what std::env::var("PORT") finds in the process environment
    pc,         \* position of main: "resolve", "log", "bind", "serving", "panicked"
    port,       \* the local `port: u16` of main, NoPort before line 35 has run
    log,        \* the events emitted at level INFO, in order
    binds,      \* the addresses a bind was attempted on, in order
    listeners,  \* the open listening sockets of the process
    panic,      \* the panic message that ended the process, "" while it runs
    tasks       \* the connections being served: a bag of [req, stage, resp]

vars == <<env, pc, port, log, binds, listeners, panic, tasks>>

----------------------------------------------------------------------------
\* Bounds of the model.

\* Longest value of PORT that is enumerated (in characters).
MaxLen == 5
\* Most connections served at the same time.
MaxConns == 2

----------------------------------------------------------------------------
\* Port resolution (main.rs lines 35-38).

\* Largest value of the type u16.
U16Max == 65535

\* The local `port` before its declaration has been executed.
NoPort == -1

\* Characters the enumerated values of PORT are made of.
Chars == {"0", "3", "5", "6", "9", "+", "-", "a"}

Digits == {"0", "1", "2", "3", "4", "5", "6", "7", "8", "9"}

DigitVal(c) ==
    CASE c = "0" -> 0 [] c = "1" -> 1 [] c = "2" -> 2 [] c = "3" -> 3
      [] c = "4" -> 4 [] c = "5" -> 5 [] c = "6" -> 6 [] c = "7" -> 7
      [] c = "8" -> 8 [] c = "9" -> 9

\* All strings over Chars of length at most n.
RECURSIVE StringsUpTo(_)
StringsUpTo(n) ==
    IF n = 0 THEN {<<>>}
    ELSE LET shorter == StringsUpTo(n - 1)
         IN  shorter \cup {Append(s, c) : s \in {t \in shorter : Len(t) = n - 1}, c \in Chars}

Unset == [kind |-> "unset", val |-> <<>>]
NotUnicode == [kind |-> "notunicode", val |-> <<>>]
Str(s) == [kind |-> "str", val |-> s]

\* Every state of the environment variable PORT that is enumerated.
EnvValues == {Unset, NotUnicode} \cup {Str(s) : s \in StringsUpTo(MaxLen)}

\* std::env::var: Ok(value) when the variable is present and valid Unicode,
\* Err(NotPresent) or Err(NotUnicode) otherwise.
EnvVar(e) ==
    IF e.kind = "str" THEN [ok |-> TRUE, val |-> e.val] ELSE [ok |-> FALSE, val |-> <<>>]

DefaultPortWrong == <<"3", "0", "0">>
\* The literal "3000" of line 36.
DefaultPort == <<"3", "0", "0", "0">>

\* Result::unwrap_or("3000".into()): the default replaces every Err.
UnwrapOrDefault(r) == IF r.ok THEN r.val ELSE DefaultPort

ParseErr == [ok |-> FALSE, val |-> 0]

\* The digits of an unsigned decimal, left to right, with checked arithmetic:
\* an invalid digit or a value above u16::MAX is an error.
RECURSIVE ParseDigits(_, _)
ParseDigits(s, acc) ==
    IF s = <<>> THEN [ok |-> TRUE, val |-> acc]
    ELSE IF Head(s) \notin Digits THEN ParseErr
    ELSE LET next == acc * 10 + DigitVal(Head(s))
         IN  IF next > U16Max THEN ParseErr ELSE ParseDigits(Tail(s), next)

\* str::parse::<u16>: empty input, a lone sign, a '-' (u16 is unsigned), any
\* non-digit and an overflow are errors; one leading '+' is accepted.
ParseU16(s) ==
    IF s = <<>> THEN ParseErr
    ELSE IF Len(s) = 1 /\ Head(s) \in {"+", "-"} THEN ParseErr
    ELSE IF Head(s) = "+" THEN ParseDigits(Tail(s), 0)
    ELSE ParseDigits(s, 0)

SocketAddrLoopback(p) == [ip |-> "127.0.0.1", port |-> p]
\* SocketAddr::from(([0, 0, 0, 0], port)) of line 40.
SocketAddrFrom(p) == [ip |-> "0.0.0.0", port |-> p]

\* Ports the operating system hands out when a bind asks for port 0.
EphemeralPorts == {32768, 60999}

----------------------------------------------------------------------------
\* Requests, responses and the handlers (main.rs lines 16-27 and 59-78).

Methods == {"GET", "HEAD", "POST", "PUT", "DELETE", "PATCH", "OPTIONS"}

Request(m, p, q, b) == [method |-> m, path |-> p, query |-> q, body |-> b]

RoutePaths == {"/", "/complex"}
OtherPaths == {"/complex/", "/Complex", "//", "/complex/x"}

\* The requests the serving specification draws from: every method on the two
\* routes, near-miss paths, and GET requests carrying a query and a body.
Requests ==
    {Request(m, p, "", "") : m \in Methods, p \in RoutePaths}
    \cup {Request(m, p, "", "") : m \in {"GET", "HEAD", "POST"}, p \in OtherPaths}
    \cup {Request("GET", p, q, b) : p \in RoutePaths, q \in {"", "x=1"}, b \in {"", "data"}}

\* The requests the startup specification draws from.
StartupRequests == {Request("GET", "/", "", "")}

Text(s) == [t |-> "text", v |-> s]
Punct(s) == [t |-> "punct", v |-> s]
JString(s) == [t |-> "string", v |-> s]

NoBody == <<>>

Response(st, ct, b, h) == [status |-> st, ctype |-> ct, body |-> b, handler |-> h]

NoResp == Response(0, "", NoBody, "none")

\* serde_json::to_vec of an object: its members, comma separated, in braces.
RECURSIVE SerializeMembers(_)
SerializeMembers(ms) ==
    IF ms = <<>> THEN <<>>
    ELSE <<JString(Head(ms).key), Punct(":"), JString(Head(ms).val)>>
         \o (IF Tail(ms) = <<>> THEN <<>> ELSE <<Punct(",")>>)
         \o SerializeMembers(Tail(ms))

SerializeJson(obj) == <<Punct("{")>> \o SerializeMembers(obj) \o <<Punct("}")>>

rootNoComma == Response(200, "text/plain", <<Text("Hello World!")>>, "root")
rootStateful ==
    IF BagCardinality(tasks) > 1
    THEN Response(200, "text/plain", <<Text("Hello again!")>>, "root")
    ELSE Response(200, "text/plain", <<Text("Hello, World!")>>, "root")
\* async fn root() -> &'static str: the string becomes a 200 text/plain response.
root == Response(200, "text/plain", <<Text("Hello, World!")>>, "root")

\* serde_json::json!({"message": "Hello, World!"}) of lines 74-76.
JsonValue == <<[key |-> "message", val |-> "Hello, World!"]>>

complexExtraField ==
    Response(200, "application/json",
             SerializeJson(JsonValue \o <<[key |-> "status", val |-> "ok"]>>), "complex")
\* async fn complex(): (StatusCode::OK, Json(value)).
complex == Response(200, "application/json", SerializeJson(JsonValue), "complex")

Handler(name) == IF name = "root" THEN root ELSE complex

any(h) == [accepts |-> Methods, handler |-> h]
\* routing::get(handler): the method router calls the handler for GET and,
\* with the response body removed, for HEAD; every other method gets 405.
get(h) == [accepts |-> {"GET", "HEAD"}, handler |-> h]

RouterWithTrailingSlash ==
    {[path |-> "/", mr |-> get("root")],
     [path |-> "/complex", mr |-> get("complex")],
     [path |-> "/complex/", mr |-> get("complex")]}
\* Router::new().route("/", get(root)).route("/complex", get(complex)).
Router ==
    {[path |-> "/", mr |-> get("root")],
     [path |-> "/complex", mr |-> get("complex")]}

\* The fallbacks of the framework: no route for the path, no handler for the method.
NotFound == Response(404, "", NoBody, "none")
MethodNotAllowed == Response(405, "", NoBody, "none")

\* A method router called with a request.
CallMethodRouter(mr, method) ==
    IF method \notin mr.accepts THEN MethodNotAllowed
    ELSE IF method = "HEAD" THEN [Handler(mr.handler) EXCEPT !.body = NoBody]
    ELSE Handler(mr.handler)

\* The router called with a request: the route is looked up by the path of the
\* URI alone, the match is exact.
CallRouter(req) ==
    LET matching == {rt \in Router : rt.path = req.path}
    IN  IF matching = {} THEN NotFound
        ELSE CallMethodRouter((CHOOSE rt \in matching : TRUE).mr, req.method)

----------------------------------------------------------------------------
\* The process.

InitWith(envs) ==
    /\ env \in envs
    /\ pc = "resolve"
    /\ port = NoPort
    /\ log = <<>>
    /\ binds = <<>>
    /\ listeners = {}
    /\ panic = ""
    /\ tasks = EmptyBag

Init == InitWith(EnvValues)

\* Lines 35-38: env::var, unwrap_or, parse, expect.
ResolvePort ==
    /\ pc = "resolve"
    /\ LET parsed == ParseU16(UnwrapOrDefault(EnvVar(env)))
       IN  \/ /\ parsed.ok
              /\ port' = parsed.val
              /\ pc' = "log"
              /\ UNCHANGED panic
           \/ /\ ~parsed.ok
              /\ pc' = "panicked"
              /\ panic' = "failed to convert to number"
              /\ UNCHANGED port
    /\ UNCHANGED <<env, log, binds, listeners, tasks>>

\* Lines 40-43: the address is built and logged at level INFO.
LogListening ==
    /\ pc = "log"
    /\ log' = Append(log, [level |-> "INFO", addr |-> SocketAddrFrom(port)])
    /\ pc' = "bind"
    /\ UNCHANGED <<env, port, binds, listeners, panic, tasks>>

BindRetry ==
    /\ pc = "bind"
    /\ binds' = Append(binds, SocketAddrFrom(port))
    /\ \/ /\ pc' = IF Len(binds) < 1 THEN "bind" ELSE "panicked"
          /\ panic' = IF Len(binds) < 1 THEN "" ELSE "error binding"
          /\ UNCHANGED listeners
       \/ /\ \E p \in (IF port = 0 THEN EphemeralPorts ELSE {port}) :
                listeners' = {SocketAddrFrom(p)}
          /\ pc' = "serving"
          /\ UNCHANGED panic
    /\ UNCHANGED <<env, port, log, tasks>>

\* Lines 46-52: Server::bind(&addr) binds once; a failure panics, a success
\* starts serving. A bind on port 0 gets a port chosen by the operating system.
Bind ==
    /\ pc = "bind"
    /\ binds' = Append(binds, SocketAddrFrom(port))
    /\ \/ /\ pc' = "panicked"
          /\ panic' = "error binding"
          /\ UNCHANGED listeners
       \/ /\ \E p \in (IF port = 0 THEN EphemeralPorts ELSE {port}) :
                listeners' = {SocketAddrFrom(p)}
          /\ pc' = "serving"
          /\ UNCHANGED panic
    /\ UNCHANGED <<env, port, log, tasks>>

Task(r, stage, resp) == [req |-> r, stage |-> stage, resp |-> resp]

\* The server accepts a connection and reads a request from it.
Accept(reqs) ==
    /\ pc = "serving"
    /\ listeners # {}
    /\ BagCardinality(tasks) < MaxConns
    /\ \E r \in reqs : tasks' = tasks (+) SetToBag({Task(r, "accepted", NoResp)})
    /\ UNCHANGED <<env, pc, port, log, binds, listeners, panic>>

\* The task of a connection calls the router with its request.
Dispatch ==
    /\ pc = "serving"
    /\ \E t \in BagToSet(tasks) :
          /\ t.stage = "accepted"
          /\ tasks' = (tasks (-) SetToBag({t}))
                        (+) SetToBag({Task(t.req, "responded", CallRouter(t.req))})
    /\ UNCHANGED <<env, pc, port, log, binds, listeners, panic>>

\* The response has been written and the connection is closed.
Complete ==
    /\ pc = "serving"
    /\ \E t \in BagToSet(tasks) :
          /\ t.stage = "responded"
          /\ tasks' = tasks (-) SetToBag({t})
    /\ UNCHANGED <<env, pc, port, log, binds, listeners, panic>>

AcceptStartup == Accept(StartupRequests)
AcceptAny == Accept(Requests)

Next ==
    \/ ResolvePort
    \/ LogListening
    \/ Bind
    \/ AcceptStartup
    \/ Dispatch
    \/ Complete

\* The startup under every enumerated value of PORT.
Spec == Init /\ [][Next]_vars

\* Environments of the serving specification: PORT unset, valid, invalid.
ServeEnvs == {Unset, Str(<<"6", "0", "0", "0">>), Str(<<"a">>)}

InitServe == InitWith(ServeEnvs)

NextServe ==
    \/ ResolvePort
    \/ LogListening
    \/ Bind
    \/ AcceptAny
    \/ Dispatch
    \/ Complete

\* The serving of every enumerated request.
SpecServe == InitServe /\ [][NextServe]_vars

----------------------------------------------------------------------------
\* Properties of the startup (checked under Spec).

\* PORT is present, valid Unicode, and parses as a u16.
Parses(e) == e.kind = "str" /\ ParseU16(e.val).ok

AllInterfaces(p) == [ip |-> "0.0.0.0", port |-> p]

BindsAreOn(a) == \A i \in 1..Len(binds) : binds[i] = a

\* C1: whenever PORT is present and does not parse as an unsigned 16-bit
\* integer (a value that is not valid Unicode included), the startup ends in
\* the fatal termination before any bind: no bind is attempted, no listening
\* socket is ever open and the default 3000 is never used as the port.
C1_InvalidPortIsFatalBeforeBind ==
    (env.kind # "unset" /\ ~Parses(env)) =>
        /\ pc \in {"resolve", "panicked"}
        /\ port = NoPort
        /\ binds = <<>>
        /\ listeners = {}

\* C2 as stated: whenever PORT parses as a u16 (0..65535), every listening
\* socket of the process is on 0.0.0.0 at exactly that port number.
C2_ListenerIsOnParsedPort ==
    Parses(env) =>
        \A l \in listeners : l = AllInterfaces(ParseU16(env.val).val)

\* C2 as amended: whenever PORT parses as a u16, the one bind is requested on
\* 0.0.0.0 at exactly that number; for a number other than 0 the listening
\* socket is on exactly that port and no other port is ever bound, and for 0 it
\* is on 0.0.0.0 at the port the operating system picked.
C2_BindIsOnParsedPort ==
    Parses(env) =>
        LET n == ParseU16(env.val).val
        IN  /\ pc \notin {"resolve", "panicked"} => port = n
            /\ BindsAreOn(AllInterfaces(n))
            /\ \A l \in listeners :
                  /\ l.ip = "0.0.0.0"
                  /\ n # 0 => l.port = n
                  /\ n = 0 => l.port \in EphemeralPorts
            /\ pc = "serving" => Cardinality(listeners) = 1

\* C2 witness: PORT=65535 has been parsed and the server listens on 0.0.0.0:65535.
C2_Witness ==
    /\ env = Str(<<"6", "5", "5", "3", "5">>)
    /\ pc = "serving"
    /\ listeners = {AllInterfaces(65535)}

\* C3: whenever PORT is unset, the resolved port is 3000, every bind and every
\* listening socket is on 0.0.0.0:3000, and the startup never fails on the
\* configuration.
C3_UnsetPortBinds3000 ==
    env.kind = "unset" =>
        /\ panic # "failed to convert to number"
        /\ pc # "resolve" => port = 3000
        /\ BindsAreOn(AllInterfaces(3000))
        /\ listeners \subseteq {AllInterfaces(3000)}
        /\ pc = "serving" => listeners = {AllInterfaces(3000)}

\* C3 witness: PORT is unset and the server listens on 0.0.0.0:3000.
C3_Witness ==
    /\ env = Unset
    /\ pc = "serving"
    /\ port = 3000
    /\ listeners = {AllInterfaces(3000)}

\* C8: the startup emits exactly one INFO line once the port is resolved, none
\* when PORT is invalid, the line is there before any connection is accepted,
\* and once the bind has been attempted the address it states is an address
\* the process listens on (it is never an address that is not bound).
C8_LogLineStatesBoundAddress ==
    /\ Len(log) <= 1
    /\ (pc \in {"bind", "serving"} \/ panic = "error binding") => Len(log) = 1
    /\ panic = "failed to convert to number" => log = <<>>
    /\ tasks # EmptyBag => Len(log) = 1
    /\ binds # <<>> => \A i \in 1..Len(log) : log[i].addr \in listeners

\* C9: a failed bind ends the process with no listening socket and no
\* connection accepted, after a single bind attempt on the resolved port; a
\* terminated process takes no further step; connections are only ever served
\* by a process that is serving on an open listener; and a serving process
\* stays serving on the same listener, with a step of the server loop always
\* possible.
C9_BindFailureIsFatalServingGoesOn ==
    /\ [](panic = "error binding" =>
            /\ pc = "panicked"
            /\ listeners = {}
            /\ tasks = EmptyBag
            /\ binds = <<AllInterfaces(port)>>)
    /\ [](Len(binds) <= 1)
    /\ [](tasks # EmptyBag => pc = "serving" /\ listeners # {})
    /\ [](pc = "serving" => ENABLED (AcceptStartup \/ Dispatch \/ Complete))
    /\ [][pc # "panicked"]_vars
    /\ [][pc = "serving" =>
            /\ pc' = "serving"
            /\ listeners' = listeners
            /\ listeners' # {}
            /\ panic' = ""]_vars

\* C9 witness: the bind on the default port has failed and the process is dead.
C9_Witness ==
    /\ env = Unset
    /\ panic = "error binding"
    /\ pc = "panicked"
    /\ binds = <<AllInterfaces(3000)>>

----------------------------------------------------------------------------
\* Properties of the serving of requests (checked under SpecServe).

Responded == {t \in BagToSet(tasks) : t.stage = "responded"}

\* What a client reads back from a JSON body: the members of the object, or a
\* failure when the text is not one JSON object of string members.
RECURSIVE DeserializeMembers(_, _)
DeserializeMembers(toks, acc) ==
    IF Len(toks) < 3 THEN [ok |-> FALSE, members |-> <<>>]
    ELSE IF ~(toks[1].t = "string" /\ toks[2] = Punct(":") /\ toks[3].t = "string")
    THEN [ok |-> FALSE, members |-> <<>>]
    ELSE LET ms == Append(acc, <<toks[1].v, toks[3].v>>)
             rest == SubSeq(toks, 4, Len(toks))
         IN  IF rest = <<>> THEN [ok |-> TRUE, members |-> ms]
             ELSE IF Head(rest) = Punct(",") THEN DeserializeMembers(Tail(rest), ms)
             ELSE [ok |-> FALSE, members |-> <<>>]

DeserializeJson(toks) ==
    IF Len(toks) < 2 \/ toks[1] # Punct("{") \/ toks[Len(toks)] # Punct("}")
    THEN [ok |-> FALSE, members |-> <<>>]
    ELSE IF Len(toks) = 2 THEN [ok |-> TRUE, members |-> <<>>]
    ELSE DeserializeMembers(SubSeq(toks, 2, Len(toks) - 1), <<>>)

\* C4 as stated: a request to `/` or `/complex` whose method is anything other
\* than GET (HEAD included) invokes no handler and is not answered 200.
C4_OnlyGetReachesHandlers ==
    \A t \in Responded :
        (t.req.path \in RoutePaths /\ t.req.method # "GET") =>
            /\ t.resp.handler = "none"
            /\ t.resp.status # 200

\* C4 as amended: a request to `/` or `/complex` whose method is neither GET
\* nor HEAD invokes no handler and is answered 405; a HEAD request invokes the
\* handler of the route and is answered 200 with the body removed.
C4_OnlyGetAndHeadReachHandlers ==
    \A t \in Responded :
        t.req.path \in RoutePaths =>
            /\ t.req.method \notin {"GET", "HEAD"} =>
                  /\ t.resp.handler = "none"
                  /\ t.resp.status = 405
                  /\ t.resp.body = NoBody
            /\ t.req.method = "HEAD" =>
                  /\ t.resp.handler = (IF t.req.path = "/" THEN "root" ELSE "complex")
                  /\ t.resp.status = 200
                  /\ t.resp.body = NoBody

\* C4 witness: a POST to `/` has been answered 405 while a HEAD to `/complex`
\* has been answered too.
C4_Witness ==
    /\ \E t \in Responded :
          t.req.method = "POST" /\ t.req.path = "/" /\ t.resp.status = 405
    /\ \E t \in Responded : t.req.method = "HEAD" /\ t.req.path = "/complex"

\* C5: the router holds exactly the two routes `/` and `/complex`, and a
\* request of any method to any other path invokes no handler and is never
\* answered 200 (it gets the 404 of the framework).
C5_OtherPathsNever200 ==
    /\ Cardinality(Router) = 2
    /\ {rt.path : rt \in Router} = {"/", "/complex"}
    /\ \A t \in Responded :
          t.req.path \notin {"/", "/complex"} =>
              /\ t.resp.status # 200
              /\ t.resp.status = 404
              /\ t.resp.handler = "none"

\* C5 witness: a GET of the near miss `/complex/` has been answered 404.
C5_Witness ==
    \E t \in Responded :
        t.req.method = "GET" /\ t.req.path = "/complex/" /\ t.resp.status = 404

\* C6: every GET of `/` is answered 200 with the body `Hello, World!` and the
\* content type text/plain, whatever its query and body.
C6_GetRootIsHelloWorld ==
    \A t \in Responded :
        (t.req.method = "GET" /\ t.req.path = "/") =>
            /\ t.resp.status = 200
            /\ t.resp.body = <<Text("Hello, World!")>>
            /\ t.resp.ctype = "text/plain"
            /\ t.resp.handler = "root"

\* C6 witness: a GET of `/` with a query and a request body has been answered.
C6_Witness ==
    \E t \in Responded :
        /\ t.req = Request("GET", "/", "x=1", "data")
        /\ t.resp.status = 200

\* C7: every GET of `/complex` is answered 200 with content type
\* application/json and a body that deserializes to the object with the one
\* member "message": "Hello, World!", whatever its query and body.
C7_GetComplexIsJsonMessage ==
    \A t \in Responded :
        (t.req.method = "GET" /\ t.req.path = "/complex") =>
            /\ t.resp.status = 200
            /\ t.resp.ctype = "application/json"
            /\ DeserializeJson(t.resp.body) =
                  [ok |-> TRUE, members |-> << <<"message", "Hello, World!">> >>]

\* C7 witness: a GET of `/complex` with a query and a request body has been
\* answered with a JSON body.
C7_Witness ==
    \E t \in Responded :
        /\ t.req = Request("GET", "/complex", "x=1", "data")
        /\ t.resp.ctype = "application/json"
        /\ DeserializeJson(t.resp.body).ok

\* C10: the responses of any two requests with the same method and path are
\* the same, whatever else is in flight or was served before; a step that
\* accepts, serves or closes a connection changes neither the environment, the
\* port, the listener nor the log, and changes the tasks of one request only.
C10_ResponseDependsOnMethodAndPathOnly ==
    /\ [](\A t1, t2 \in Responded :
            (t1.req.method = t2.req.method /\ t1.req.path = t2.req.path) =>
                t1.resp = t2.resp)
    /\ [][tasks' # tasks =>
            /\ UNCHANGED <<env, pc, port, log, binds, listeners, panic>>
            /\ \E t \in BagToSet(tasks) \cup BagToSet(tasks') :
                  \A u \in BagToSet(tasks) \cup BagToSet(tasks') :
                      u.req # t.req => CopiesIn(u, tasks') = CopiesIn(u, tasks)]_vars

\* C10 witness: two requests with the same method and path, one with a query
\* and a body and one without, have been answered at the same time.
C10_Witness ==
    /\ BagCardinality(tasks) = 2
    /\ \E t1, t2 \in Responded :
          /\ t1.req = Request("GET", "/", "", "")
          /\ t2.req = Request("GET", "/", "x=1", "data")

====
